---------------------------- MODULE Spec2Model ----------------------------
(***************************************************************************)
(* A model of qonnx/util/basic.py: the accumulator range analysis, the     *)
(* quantized-value sanitizer, the quantized tensor generator and the two   *)
(* layout utilities (partition interleave, padding to a multiple).         *)
(*                                                                         *)
(* Two specifications share the module.                                    *)
(*   Spec          the pure functions: every action is one call, with its  *)
(*                 arguments drawn from bounded sets, and leaves the       *)
(*                 arguments in `call` and the returned value in `ret`.    *)
(*   SpecSanitize  sanitize_quant_values acting on an execution context    *)
(*                 (the caller-owned value store), called repeatedly.      *)
(*                                                                         *)
(* qonnx.core.datatype (the DataType catalog) is not part of the sources   *)
(* at hand; its operations are modelled from the specification (section 3  *)
(* and section 6) and are the Dt... operators below.                       *)
(***************************************************************************)
EXTENDS Integers, Sequences, FiniteSets, TLC

VARIABLES
    call,               \* Spec: the arguments of the last pure call
    ret,                \* Spec: what that call returned (or the error raised)
    model,              \* SpecSanitize: tensor name -> datatype annotation
    execution_context,  \* SpecSanitize: tensor name -> values (flattened)
    ERROR_THRESH,       \* SpecSanitize: the environment variable, None when not set
    args,               \* SpecSanitize: arguments of the last sanitize call
    before,             \* SpecSanitize: execution_context as that call found it
    outcome,            \* SpecSanitize: how that call ended
    warned,             \* SpecSanitize: tensors that call warned about, in order
    ncalls              \* SpecSanitize: number of sanitize calls made so far

vars == <<call, ret, model, execution_context, ERROR_THRESH, args, before,
          outcome, warned, ncalls>>

pureVars == <<call, ret>>
sanVars == <<model, execution_context, ERROR_THRESH, args, before, outcome,
             warned, ncalls>>

-----------------------------------------------------------------------------
(* Arithmetic helpers.                                                     *)

Abs(n) == IF n < 0 THEN -n ELSE n

SetMax(S) == CHOOSE m \in S : \A n \in S : n <= m

SetMin(S) == CHOOSE m \in S : \A n \in S : m <= n

RECURSIVE Pow2(_)
Pow2(n) == IF n = 0 THEN 1 ELSE 2 * Pow2(n - 1)

RECURSIVE SeqSum(_)
SeqSum(s) == IF s = <<>> THEN 0 ELSE Head(s) + SeqSum(Tail(s))

-----------------------------------------------------------------------------
(* The DataType capability (qonnx.core.datatype), modelled from the        *)
(* specification.  A datatype is a record [kind, bw, frac]:                *)
(*   INT<bw> / UINT<bw>   two's complement / unsigned integers of bw bits  *)
(*   BIPOLAR {-1,+1}, BINARY {0,1}, TERNARY {-1,0,+1}                     *)
(*   FIXED<bw,frac>       INT<bw> mantissa times 2^-frac                   *)
(*   FLOAT32              any value                                        *)
(*   FLOAT<e,m>           an arbitrary-precision float: a kind the         *)
(*                        generator has no branch for                      *)

Dt(kind, bw, frac) == [kind |-> kind, bw |-> bw, frac |-> frac]

INT(bw) == Dt("INT", bw, 0)
UINT(bw) == Dt("UINT", bw, 0)
BIPOLAR == Dt("BIPOLAR", 1, 0)
BINARY == Dt("BINARY", 1, 0)
TERNARY == Dt("TERNARY", 2, 0)
FIXED(bw, frac) == Dt("FIXED", bw, frac)
FLOAT32 == Dt("FLOAT32", 32, 0)
ARBPRECFLOAT == Dt("FLOAT<e,m>", 8, 0)

\* dt.name
DtName(dt) == dt.kind

\* dt.bitwidth()
DtBitwidth(dt) == dt.bw

\* dt.min() of the integer-valued kinds, in units of one.
DtMin(dt) ==
    CASE dt.kind = "INT" -> -Pow2(dt.bw - 1)
      [] dt.kind = "UINT" -> 0
      [] dt.kind = "BIPOLAR" -> -1
      [] dt.kind = "BINARY" -> 0
      [] dt.kind = "TERNARY" -> -1

\* dt.max() of the integer-valued kinds, in units of one.
DtMax(dt) ==
    CASE dt.kind = "INT" -> Pow2(dt.bw - 1) - 1
      [] dt.kind = "UINT" -> Pow2(dt.bw) - 1
      [] dt.kind = "BIPOLAR" -> 1
      [] dt.kind = "BINARY" -> 1
      [] dt.kind = "TERNARY" -> 1

\* dt.signed(): the type can represent negative numbers.
DtSigned(dt) ==
    dt.kind \in {"INT", "BIPOLAR", "TERNARY", "FIXED", "FLOAT32", "FLOAT<e,m>"}

\* dt.is_integer()
DtIsInteger(dt) == dt.kind \in {"INT", "UINT", "BIPOLAR", "BINARY", "TERNARY"}

\* dt.allowed(n) for a value that is the whole number n.
DtAllowedInt(dt, n) ==
    CASE dt.kind \in {"INT", "UINT", "BINARY"} -> DtMin(dt) <= n /\ n <= DtMax(dt)
      [] dt.kind = "BIPOLAR" -> n \in {-1, 1}
      [] dt.kind = "TERNARY" -> n \in {-1, 0, 1}
      [] dt.kind \in {"FLOAT32", "FLOAT<e,m>"} -> TRUE
      [] OTHER -> FALSE

-----------------------------------------------------------------------------
(* calculate_matvec_accumulator_range.  A matrix of shape (MW, MH) is a    *)
(* sequence of MW rows, each a sequence of MH weights.                     *)

MatMW(matrix) == Len(matrix)
MatMH(matrix) == Len(matrix[1])

\* A slip in the sign test: np.where(matrix < 0, a, b).
np_where_negative(matrix, a, b) ==
    [i \in 1..MatMW(matrix) |->
        [j \in 1..MatMH(matrix) |-> IF matrix[i][j] < 0 THEN a ELSE b]]

\* np.where(matrix > 0, a, b)
np_where_positive(matrix, a, b) ==
    [i \in 1..MatMW(matrix) |->
        [j \in 1..MatMH(matrix) |-> IF matrix[i][j] > 0 THEN a ELSE b]]

\* (matrix * vectors).sum(axis=0): one sum per output column.
sum_axis0(matrix, vectors) ==
    [j \in 1..MatMH(matrix) |->
        SeqSum([i \in 1..MatMW(matrix) |-> matrix[i][j] * vectors[i][j]])]

\* A slip in the return statement: (max_value, min_value).
calculate_matvec_accumulator_range_swapped(matrix, vec_dt) ==
    LET max_vectors == np_where_positive(matrix, DtMax(vec_dt), DtMin(vec_dt))
        min_vectors == np_where_positive(matrix, DtMin(vec_dt), DtMax(vec_dt))
        max_sums == sum_axis0(matrix, max_vectors)
        min_sums == sum_axis0(matrix, min_vectors)
        max_value == SetMax({max_sums[j] : j \in 1..MatMH(matrix)})
        min_value == SetMin({min_sums[j] : j \in 1..MatMH(matrix)})
    IN  <<max_value, min_value>>

calculate_matvec_accumulator_range(matrix, vec_dt) ==
    LET max_vectors == np_where_positive(matrix, DtMax(vec_dt), DtMin(vec_dt))
        min_vectors == np_where_positive(matrix, DtMin(vec_dt), DtMax(vec_dt))
        max_sums == sum_axis0(matrix, max_vectors)
        min_sums == sum_axis0(matrix, min_vectors)
        max_value == SetMax({max_sums[j] : j \in 1..MatMH(matrix)})
        min_value == SetMin({min_sums[j] : j \in 1..MatMH(matrix)})
    IN  <<min_value, max_value>>

-----------------------------------------------------------------------------
(* calculate_signed_dot_prod_range.                                        *)

\* The initial values of min_prod and max_prod.
MinProdInit == Pow2(30)
MaxProdInit == -Pow2(30)

\* The products the two nested loops compute, in the order they compute them.
corner_prods(dt_a, dt_b, len) ==
    LET a_vals == <<DtMin(dt_a), DtMax(dt_a)>>
        b_vals == <<DtMin(dt_b), DtMax(dt_b)>>
    IN  [k \in 1..4 |-> a_vals[((k - 1) \div 2) + 1] * b_vals[((k - 1) % 2) + 1] * len]

\* A slip in the loop body: the second test chained to the first with elif.
RECURSIVE dot_prod_loop_elif(_, _, _, _)
dot_prod_loop_elif(prods, k, min_prod, max_prod) ==
    IF k > Len(prods) THEN <<min_prod, max_prod>>
    ELSE LET prod == prods[k]
         IN  IF prod < min_prod
             THEN dot_prod_loop_elif(prods, k + 1, prod, max_prod)
             ELSE IF prod > max_prod
                  THEN dot_prod_loop_elif(prods, k + 1, min_prod, prod)
                  ELSE dot_prod_loop_elif(prods, k + 1, min_prod, max_prod)

\* The loop body, run over the products from position k on.
RECURSIVE dot_prod_loop(_, _, _, _)
dot_prod_loop(prods, k, min_prod, max_prod) ==
    IF k > Len(prods) THEN <<min_prod, max_prod>>
    ELSE LET prod == prods[k]
             min1 == IF prod < min_prod THEN prod ELSE min_prod
             max1 == IF prod > max_prod THEN prod ELSE max_prod
         IN  dot_prod_loop(prods, k + 1, min1, max1)

\* A slip in the assertion: "dt_a.signed() or dt_b.signed()".
calculate_signed_dot_prod_range_or(dt_a, dt_b, len) ==
    IF ~(DtSigned(dt_a) \/ DtSigned(dt_b))
    THEN [error |-> "AssertionError"]
    ELSE [error |-> "none",
          value |-> dot_prod_loop(corner_prods(dt_a, dt_b, len), 1,
                                  MinProdInit, MaxProdInit)]

calculate_signed_dot_prod_range(dt_a, dt_b, len) ==
    IF ~(DtSigned(dt_a) /\ DtSigned(dt_b))
    THEN [error |-> "AssertionError"]
    ELSE [error |-> "none",
          value |-> dot_prod_loop(corner_prods(dt_a, dt_b, len), 1,
                                  MinProdInit, MaxProdInit)]

-----------------------------------------------------------------------------
(* gen_finn_dt_tensor.  A tensor is the sequence of its elements; an       *)
(* element is a whole number m of units of 2^-frac, frac being 0 except    *)
(* for fixed-point and float tensors.  The seeded generator's draws are a  *)
(* choice among the values numpy can return.                               *)

\* An optional argument: None, or Some(x) holding the number x.
None == <<>>
Some(x) == <<x>>

\* The inclusive range of the numpy integer type of the given width (the
\* sums are written so that no intermediate value leaves 32 bits).
np_iinfo(signed, bits) ==
    IF signed THEN <<-Pow2(bits - 2) - Pow2(bits - 2),
                     Pow2(bits - 2) + (Pow2(bits - 2) - 1)>>
    ELSE <<0, Pow2(bits) - 1>>

\* dt.to_numpy_dt() of an integer-valued kind: the narrowest numpy integer
\* type holding the bitwidth.  The datatypes of the model are at most 32
\* bits wide when signed and at most 16 bits wide when unsigned.
DtToNumpyDt(dt) ==
    LET bits == IF dt.bw <= 8 THEN 8 ELSE IF dt.bw <= 16 THEN 16 ELSE 32
    IN  IF dt.kind = "TERNARY" THEN np_iinfo(TRUE, 8)
        ELSE np_iinfo(dt.kind = "INT", bits)

\* dt.scale_factor() is 2^-DtFracBits(dt).
DtFracBits(dt) == dt.frac

\* The number of significand bits of an IEEE-754 binary32 value.
Float32Precision == 24

\* The least e with |m| < 2^(Float32Precision + e).
RECURSIVE float32_exponent(_, _)
float32_exponent(m, e) ==
    IF Abs(m) < Pow2(Float32Precision + e) THEN e ELSE float32_exponent(m, e + 1)

\* ndarray.astype(np.float32) of the value m * 2^-frac: round to nearest
\* with Float32Precision significand bits, ties to even.
astype_float32(m) ==
    LET q == Pow2(float32_exponent(m, 0))
        down == (Abs(m) \div q) * q
        rem == Abs(m) - down
        mag == IF 2 * rem < q THEN down
               ELSE IF 2 * rem > q THEN down + q
               ELSE IF (Abs(m) \div q) % 2 = 0 THEN down ELSE down + q
    IN  IF m < 0 THEN -mag ELSE mag

\* The grid on which the float draws of the model lie: multiples of
\* 2^-FloatGridBits.
FloatGridBits == 2

\* rng.randint(low, high=high, dtype=np_dt): the bounds it checks.
randint_bounds(low, high, np_dt) ==
    IF low < np_dt[1] \/ high - 1 > np_dt[2] \/ low >= high
    THEN [error |-> "ValueError"]
    ELSE [error |-> "none", low |-> low, high |-> high]

\* The values of the half-open range [low, high) the model lets a draw take.
randint_draws(low, high) ==
    {x \in {low, low + 1, high - 1, -1, 0, 1} : low <= x /\ x < high}

\* The branch of gen_finn_dt_tensor taken for finn_dt, up to the draw:
\* the error it raises, or the set a drawn element comes from and the
\* number of fraction bits of the result.
gen_draw_set(finn_dt, rmin, rmax) ==
    IF finn_dt \in {BIPOLAR, BINARY}
    THEN [error |-> "none", kind |-> finn_dt.kind, draws |-> {0, 1}, frac |-> 0]
    ELSE IF finn_dt.kind \in {"INT", "UINT", "TERNARY"}
    THEN LET lo == IF rmin = None THEN DtMin(finn_dt) ELSE rmin[1]
             hi == IF rmax = None THEN DtMax(finn_dt) + 1 ELSE rmax[1]
             b == randint_bounds(lo, hi, DtToNumpyDt(finn_dt))
         IN  IF b.error # "none" THEN [error |-> b.error]
             ELSE [error |-> "none", kind |-> "INT",
                   draws |-> randint_draws(lo, hi), frac |-> 0]
    ELSE IF finn_dt.kind = "FIXED"
    THEN LET int_dt == INT(DtBitwidth(finn_dt))
             lo == IF rmin = None THEN DtMin(int_dt) ELSE rmin[1]
             hi == IF rmax = None THEN DtMax(int_dt) + 1 ELSE rmax[1]
             b == randint_bounds(lo, hi, DtToNumpyDt(int_dt))
         IN  IF b.error # "none" THEN [error |-> b.error]
             ELSE [error |-> "none", kind |-> "FIXED",
                   draws |-> randint_draws(lo, hi), frac |-> DtFracBits(finn_dt)]
    ELSE IF finn_dt = FLOAT32
    THEN IF rmin = None /\ rmax = None
         THEN [error |-> "none", kind |-> "FLOAT",
               draws |-> {-6, -1, 0, 3, 5}, frac |-> FloatGridBits]
         ELSE LET lo == IF rmin = None THEN -1 ELSE rmin[1]
                  hi == IF rmax = None THEN 1 ELSE rmax[1]
              IN  [error |-> "none", kind |-> "FLOAT",
                   draws |-> {lo * Pow2(FloatGridBits), hi * Pow2(FloatGridBits),
                              lo * Pow2(FloatGridBits)
                                + ((hi - lo) * Pow2(FloatGridBits)) \div 2},
                   frac |-> FloatGridBits]
    ELSE [error |-> "ValueError"]

\* What gen_finn_dt_tensor does with the drawn tensor_values.
gen_convert(kind, tensor_values) ==
    LET mapped == IF kind = "BIPOLAR"
                  THEN [k \in DOMAIN tensor_values |-> 2 * tensor_values[k] - 1]
                  ELSE tensor_values
    IN  [k \in DOMAIN mapped |-> astype_float32(mapped[k])]

-----------------------------------------------------------------------------
(* sanitize_quant_values.  A stored tensor is the sequence of its elements *)
(* (the flattened array); an element is a whole number of units, and       *)
(* UnitsPerOne units make 1.0.                                             *)

UnitsPerOne == 2 * 100

\* The default of get_execution_error_thresh, 1e-2, in units.
DefaultErrorThresh == UnitsPerOne \div 100

\* get_execution_error_thresh(): float(os.environ["ERROR_THRESH"]), or the
\* default when the variable is not set.
get_execution_error_thresh(env) ==
    IF env = None THEN DefaultErrorThresh ELSE env[1]

\* A slip in the rounding: floor(x + 1) for floor(x + 0.5).
np_round_floor_plus_one(v) == (v - (v % UnitsPerOne)) + UnitsPerOne

\* np.round of one element: to the nearest whole value, halves to even.
np_round(v) ==
    LET rem == v % UnitsPerOne
        down == v - rem
    IN  IF 2 * rem < UnitsPerOne THEN down
        ELSE IF 2 * rem > UnitsPerOne THEN down + UnitsPerOne
        ELSE IF (down \div UnitsPerOne) % 2 = 0 THEN down ELSE down + UnitsPerOne

\* dtype.allowed(v) of one element.
DtAllowed(dtype, v) ==
    IF dtype.kind \in {"FLOAT32", "FLOAT<e,m>"} THEN TRUE
    ELSE v % UnitsPerOne = 0 /\ DtAllowedInt(dtype, v \div UnitsPerOne)

\* dtype.allowed(values).all()
all_allowed(dtype, values) ==
    \A k \in DOMAIN values : DtAllowed(dtype, values[k])

\* max(np.abs(current_values - updated_values).flatten())
max_abs_error(current_values, updated_values) ==
    SetMax({Abs(current_values[k] - updated_values[k]) : k \in DOMAIN current_values})

\* "if not dtype.is_integer(): continue"
skips_tensor(dtype) == ~DtIsInteger(dtype)

\* A slip in the tolerance test: "<" for "<=".
within_tolerance_strictly(max_error, thresh) == max_error < thresh

\* "if max_error <= get_execution_error_thresh()"
within_tolerance(max_error, thresh) == max_error <= thresh

\* A slip in the re-check: check_values is never honoured.
recheck_never_fails(check_values, dtype, updated_values) == FALSE

\* "if check_values is True" and the values are still not all allowed.
recheck_fails(check_values, dtype, updated_values) ==
    check_values /\ ~all_allowed(dtype, updated_values)

\* The state of the loop: the execution context, the warnings emitted so
\* far, and how the loop ended (status "ok" while it runs).
LoopState(ctx, warnings, status, at) ==
    [ctx |-> ctx, warned |-> warnings, status |-> status, at |-> at]

\* A slip in the loop body: the rounded values are stored before the
\* re-check, so the exception leaves them in the context.
sanitize_body_commit_first(graph, node_tensors, k, st, check_values, thresh) ==
    LET tensor_name == node_tensors[k]
        dtype == graph[tensor_name]
        current_values == st.ctx[tensor_name]
        is_allowed == all_allowed(dtype, current_values)
        updated_values == IF is_allowed THEN current_values
                          ELSE [i \in DOMAIN current_values |-> np_round(current_values[i])]
        warnings == IF is_allowed THEN st.warned ELSE Append(st.warned, tensor_name)
        max_error == max_abs_error(current_values, updated_values)
        stored == [st.ctx EXCEPT ![tensor_name] = updated_values]
    IN  IF skips_tensor(dtype) THEN st
        ELSE IF within_tolerance(max_error, thresh)
        THEN IF recheck_fails(check_values, dtype, updated_values)
             THEN LoopState(stored, warnings, "StillNotRepresentable", k)
             ELSE LoopState(stored, warnings, "ok", k)
        ELSE LoopState(st.ctx, warnings, "RoundingTooLarge", k)

\* A slip in the loop body: the warning is emitted where the rounded values
\* are stored, after the tolerance test and the re-check.
sanitize_body_warn_on_commit(graph, node_tensors, k, st, check_values, thresh) ==
    LET tensor_name == node_tensors[k]
        dtype == graph[tensor_name]
        current_values == st.ctx[tensor_name]
        is_allowed == all_allowed(dtype, current_values)
        updated_values == IF is_allowed THEN current_values
                          ELSE [i \in DOMAIN current_values |-> np_round(current_values[i])]
        warnings == IF is_allowed THEN st.warned ELSE Append(st.warned, tensor_name)
        max_error == max_abs_error(current_values, updated_values)
    IN  IF skips_tensor(dtype) THEN st
        ELSE IF within_tolerance(max_error, thresh)
        THEN IF recheck_fails(check_values, dtype, updated_values)
             THEN LoopState(st.ctx, st.warned, "StillNotRepresentable", k)
             ELSE LoopState([st.ctx EXCEPT ![tensor_name] = updated_values],
                            warnings, "ok", k)
        ELSE LoopState(st.ctx, st.warned, "RoundingTooLarge", k)

\* The loop body for node_tensors[k], on the loop state st.
sanitize_body(graph, node_tensors, k, st, check_values, thresh) ==
    LET tensor_name == node_tensors[k]
        dtype == graph[tensor_name]
        current_values == st.ctx[tensor_name]
        is_allowed == all_allowed(dtype, current_values)
        updated_values == IF is_allowed THEN current_values
                          ELSE [i \in DOMAIN current_values |-> np_round(current_values[i])]
        warnings == IF is_allowed THEN st.warned ELSE Append(st.warned, tensor_name)
        max_error == max_abs_error(current_values, updated_values)
    IN  IF skips_tensor(dtype) THEN st
        ELSE IF within_tolerance(max_error, thresh)
        THEN IF recheck_fails(check_values, dtype, updated_values)
             THEN LoopState(st.ctx, warnings, "StillNotRepresentable", k)
             ELSE LoopState([st.ctx EXCEPT ![tensor_name] = updated_values],
                            warnings, "ok", k)
        ELSE LoopState(st.ctx, warnings, "RoundingTooLarge", k)

\* A slip in the loop: the first skipped tensor ends it (break for continue).
RECURSIVE sanitize_loop_break(_, _, _, _, _, _)
sanitize_loop_break(graph, node_tensors, k, st, check_values, thresh) ==
    IF k > Len(node_tensors) THEN [st EXCEPT !.at = k]
    ELSE IF skips_tensor(graph[node_tensors[k]]) THEN [st EXCEPT !.at = Len(node_tensors) + 1]
    ELSE LET st1 == sanitize_body(graph, node_tensors, k, st, check_values, thresh)
         IN  IF st1.status # "ok" THEN st1
             ELSE sanitize_loop_break(graph, node_tensors, k + 1, st1, check_values, thresh)

\* "for tensor_name in node_tensors", from position k on; a raised exception
\* ends the loop and leaves the context as it is by then.
RECURSIVE sanitize_loop(_, _, _, _, _, _)
sanitize_loop(graph, node_tensors, k, st, check_values, thresh) ==
    IF k > Len(node_tensors) THEN [st EXCEPT !.at = k]
    ELSE LET st1 == sanitize_body(graph, node_tensors, k, st, check_values, thresh)
         IN  IF st1.status # "ok" THEN st1
             ELSE sanitize_loop(graph, node_tensors, k + 1, st1, check_values, thresh)

\* A slip in the loop header: it runs over the tensors of the execution
\* context, not over node_tensors.
sanitize_whole_context(graph, node_tensors, ctx, check_values, env) ==
    LET names == CHOOSE p \in [1..Cardinality(DOMAIN ctx) -> DOMAIN ctx] :
                    \A t \in DOMAIN ctx : \E i \in DOMAIN p : p[i] = t
    IN  sanitize_loop(graph, names, 1, LoopState(ctx, <<>>, "ok", 0),
                      check_values, get_execution_error_thresh(env))

\* sanitize_quant_values(model, node_tensors, execution_context, check_values)
\* with the environment env: the final loop state.  The context is
\* updated in place, so the caller sees st.ctx also when the call raises.
sanitize_quant_values(graph, node_tensors, ctx, check_values, env) ==
    sanitize_loop(graph, node_tensors, 1, LoopState(ctx, <<>>, "ok", 0),
                  check_values, get_execution_error_thresh(env))

-----------------------------------------------------------------------------
(* NumPy arrays, as far as the layout utilities use them: the container    *)
(* dtype, the shape, and the elements in row-major (C) order.  Indices and *)
(* axes count from 0 as in NumPy; the sequences of the model count from 1. *)

np_ndarray(dtype, shape, flat) == [dtype |-> dtype, shape |-> shape, flat |-> flat]

\* The container dtypes the utilities take as they are.
FloatContainers == {"float32", "float16"}

RECURSIVE np_prod(_)
np_prod(shape) ==
    IF Len(shape) = 0 THEN 1 ELSE Head(shape) * np_prod(Tail(shape))

\* The position of the element at multi-index idx in the row-major order.
RECURSIVE ravel_multi_index(_, _)
ravel_multi_index(idx, shape) ==
    IF Len(idx) = 0 THEN 0
    ELSE LET n == Len(idx)
         IN  ravel_multi_index(SubSeq(idx, 1, n - 1), SubSeq(shape, 1, n - 1)) * shape[n]
                 + idx[n]

\* The multi-index of the k-th element in the row-major order.
RECURSIVE unravel_index(_, _)
unravel_index(k, shape) ==
    IF Len(shape) = 0 THEN <<>>
    ELSE LET n == Len(shape)
         IN  Append(unravel_index(k \div shape[n], SubSeq(shape, 1, n - 1)), k % shape[n])

\* np.asarray(a, dtype=np.float32): every element rounded to float32.
np_asarray_float32(a) ==
    np_ndarray("float32", a.shape, [k \in DOMAIN a.flat |-> astype_float32(a.flat[k])])

\* a.reshape(newshape): the same elements in the same order; a dimension
\* given as -1 is inferred from the number of elements.
reshape(a, newshape) ==
    LET known == np_prod([d \in DOMAIN newshape |->
                             IF newshape[d] = -1 THEN 1 ELSE newshape[d]])
    IN  np_ndarray(a.dtype,
                   [d \in DOMAIN newshape |->
                       IF newshape[d] = -1 THEN Len(a.flat) \div known ELSE newshape[d]],
                   a.flat)

\* A slip: the axes are left as they are.
transpose_none(a, axes) == a

\* a.transpose(axes): axis d of the result is axis axes[d] of a.
transpose(a, axes) ==
    LET shape == [d \in DOMAIN axes |-> a.shape[axes[d] + 1]]
        source(idx) ==
            [j \in DOMAIN axes |-> idx[CHOOSE d \in DOMAIN axes : axes[d] + 1 = j]]
    IN  np_ndarray(a.dtype, shape,
                   [k \in 1..Len(a.flat) |->
                       a.flat[ravel_multi_index(source(unravel_index(k - 1, shape)),
                                                a.shape) + 1]])

\* np.pad(array, pad_width, mode="constant", constant_values=...): pad_width[d]
\* is <<before, after>>; the constant is cast to the dtype of the array,
\* which is float32 wherever the model calls np_pad.
np_pad(array, pad_width, constant_values) ==
    LET shape == [d \in DOMAIN array.shape |->
                     pad_width[d][1] + array.shape[d] + pad_width[d][2]]
        inside(idx) ==
            \A d \in DOMAIN shape :
                /\ idx[d] >= pad_width[d][1]
                /\ idx[d] < pad_width[d][1] + array.shape[d]
        source(idx) == [d \in DOMAIN shape |-> idx[d] - pad_width[d][1]]
    IN  np_ndarray(array.dtype, shape,
                   [k \in 1..np_prod(shape) |->
                       LET idx == unravel_index(k - 1, shape)
                       IN  IF inside(idx)
                           THEN array.flat[ravel_multi_index(source(idx), array.shape) + 1]
                           ELSE astype_float32(constant_values)])

-----------------------------------------------------------------------------
(* interleave_matrix_outer_dim_from_partitions.                            *)

interleave_matrix_outer_dim_from_partitions(matrix, n_partitions) ==
    LET array == IF matrix.dtype \notin FloatContainers
                 THEN np_asarray_float32(matrix) ELSE matrix
        shp == array.shape
        ndim == Len(shp)
    IN  IF shp[1] % n_partitions # 0 THEN [error |-> "AssertionError"]
        ELSE IF ndim # 2 THEN [error |-> "AssertionError"]
        ELSE LET matrix_r == transpose(reshape(array, <<-1, n_partitions, shp[2]>>),
                                       <<1, 0, 2>>)
             IN  [error |-> "none",
                  value |-> reshape(matrix_r, <<n_partitions, -1, shp[2]>>)]

-----------------------------------------------------------------------------
(* roundup_to_integer_multiple and pad_tensor_to_multiple_of.  The         *)
(* arguments of the model are whole numbers, so the two integrality        *)
(* assertions of roundup_to_integer_multiple always pass.                  *)

\* A slip: only the factor is required to be positive.
roundup_to_integer_multiple_any_x(x, factor) ==
    IF factor = -1 THEN [error |-> "none", value |-> x]
    ELSE IF ~(factor > 0) THEN [error |-> "AssertionError"]
    ELSE IF x < factor THEN [error |-> "none", value |-> factor]
    ELSE IF x % factor = 0 THEN [error |-> "none", value |-> x]
    ELSE [error |-> "none", value |-> x + (factor - (x % factor))]

roundup_to_integer_multiple(x, factor) ==
    IF factor = -1 THEN [error |-> "none", value |-> x]
    ELSE IF ~(factor > 0 /\ x > 0) THEN [error |-> "AssertionError"]
    ELSE IF x < factor THEN [error |-> "none", value |-> factor]
    ELSE IF x % factor = 0 THEN [error |-> "none", value |-> x]
    ELSE [error |-> "none", value |-> x + (factor - (x % factor))]

\* A slip: the larger half of the padding goes in front.
pad_widths_after_first(pad_amt, distr_pad) ==
    IF distr_pad
    THEN [d \in DOMAIN pad_amt |->
             LET pad_before == pad_amt[d] \div 2
             IN  <<pad_amt[d] - pad_before, pad_before>>]
    ELSE [d \in DOMAIN pad_amt |-> <<0, pad_amt[d]>>]

\* The <<before, after>> padding of every dimension.
pad_widths(pad_amt, distr_pad) ==
    IF distr_pad
    THEN [d \in DOMAIN pad_amt |->
             LET pad_before == pad_amt[d] \div 2
             IN  <<pad_before, pad_amt[d] - pad_before>>]
    ELSE [d \in DOMAIN pad_amt |-> <<0, pad_amt[d]>>]

pad_tensor_to_multiple_of(ndarray, pad_to_dims, val, distr_pad) ==
    LET array == IF ndarray.dtype \notin FloatContainers
                 THEN np_asarray_float32(ndarray) ELSE ndarray
        rounded == [d \in DOMAIN array.shape |->
                       roundup_to_integer_multiple(array.shape[d], pad_to_dims[d])]
        desired == [d \in DOMAIN array.shape |-> rounded[d].value]
        pad_amt == [d \in DOMAIN array.shape |-> desired[d] - array.shape[d]]
        padded == np_pad(array, pad_widths(pad_amt, distr_pad), val)
    IN  IF Len(array.shape) # Len(pad_to_dims) THEN [error |-> "AssertionError"]
        ELSE IF \E d \in DOMAIN array.shape : rounded[d].error # "none"
        THEN [error |-> "AssertionError"]
        ELSE IF padded.shape # desired THEN [error |-> "AssertionError"]
        ELSE [error |-> "none", value |-> padded]

-----------------------------------------------------------------------------
(* The pure functions as a state machine: one action per function, its     *)
(* arguments drawn from the sets below.  The functions keep no state       *)
(* between calls, so a behaviour is one call made from the initial state.  *)

MaxWeight == 2
MaxLen == 2
MaxElems == 2

Weights == -MaxWeight..MaxWeight

MatrixShapes == {<<1, 1>>, <<1, 2>>, <<2, 1>>, <<2, 2>>, <<3, 1>>}

Matrices ==
    UNION {[1..shp[1] -> [1..shp[2] -> Weights]] : shp \in MatrixShapes}

VecDatatypes == {INT(2), INT(3), UINT(2), BIPOLAR, BINARY, TERNARY}

DotDatatypes == {INT(2), INT(3), INT(16), BIPOLAR, TERNARY, UINT(2), BINARY}

GenDatatypes ==
    {BIPOLAR, BINARY, TERNARY, INT(2), UINT(2), INT(26), FIXED(4, 2), FLOAT32,
     ARBPRECFLOAT}

GenRmin == {None, Some(-3), Some(0), Some(1), Some(Pow2(Float32Precision) + 1)}
GenRmax == {None, Some(0), Some(2), Some(4), Some(Pow2(Float32Precision) + 2)}

\* The largest whole number the model checker computes with; Python's
\* integers have no such limit.
MaxCheckedInt == Pow2(30) + (Pow2(30) - 1)

MaxAbs(dt) == IF Abs(DtMin(dt)) > Abs(DtMax(dt)) THEN Abs(DtMin(dt)) ELSE Abs(DtMax(dt))

\* Every product the call computes is within MaxCheckedInt.
ProductsFit(dt_a, dt_b, len) ==
    IF len = 0 THEN TRUE
    ELSE MaxAbs(dt_a) * MaxAbs(dt_b) <= MaxCheckedInt \div len

MaxRows == 4
MaxSize == 3

\* The container dtypes of the arrays passed in.
ArrayDtypes == {"float32", "int64"}

\* The element values of the matrices passed in; the int64 ones include a
\* value that float32 does not hold.
MatrixElements(dtype) ==
    IF dtype = "int64" THEN {1, Pow2(Float32Precision) + 1} ELSE {0, 1}

InterleaveShapes ==
    {<<r>> : r \in 1..MaxRows} \cup {<<r, c>> : r \in 1..MaxRows, c \in {1, 2}}

\* Arrays to pad, of zero-size dimensions too.  Their elements differ from
\* one another: the k-th is k in a float32 array, 2^24 + k in an int64 one.
PadShapes ==
    {<<r>> : r \in 0..MaxSize} \cup {<<r, c>> : r \in 0..MaxSize, c \in 0..MaxSize}

PadElements(dtype, shape) ==
    [k \in 1..np_prod(shape) |->
        IF dtype = "int64" THEN Pow2(Float32Precision) + k ELSE k]

PadFactors == -2..(MaxSize + 1)

PadToDims ==
    {<<f>> : f \in PadFactors} \cup {<<f, g>> : f \in PadFactors, g \in PadFactors}

PadValues == {0, Pow2(Float32Precision) + 1}

PureIdle ==
    /\ call = [fn |-> "none"]
    /\ ret = [error |-> "none"]

SanIdle ==
    /\ model = <<>>
    /\ execution_context = <<>>
    /\ ERROR_THRESH = None
    /\ args = [called |-> FALSE]
    /\ before = <<>>
    /\ outcome = [status |-> "none"]
    /\ warned = <<>>
    /\ ncalls = 0

Init == PureIdle /\ SanIdle

MatvecAccumulatorRange ==
    /\ call.fn = "none"
    /\ \E matrix \in Matrices, vec_dt \in VecDatatypes :
           /\ call' = [fn |-> "calculate_matvec_accumulator_range",
                       matrix |-> matrix, vec_dt |-> vec_dt]
           /\ ret' = [error |-> "none",
                      value |-> calculate_matvec_accumulator_range(matrix, vec_dt)]
           /\ UNCHANGED sanVars

SignedDotProdRange ==
    /\ call.fn = "none"
    /\ \E dt_a \in DotDatatypes, dt_b \in DotDatatypes, len \in 0..MaxLen :
           /\ ProductsFit(dt_a, dt_b, len)
           /\ call' = [fn |-> "calculate_signed_dot_prod_range",
                       dt_a |-> dt_a, dt_b |-> dt_b, len |-> len]
           /\ ret' = calculate_signed_dot_prod_range(dt_a, dt_b, len)
           /\ UNCHANGED sanVars

GenFinnDtTensor ==
    /\ call.fn = "none"
    /\ \E finn_dt \in GenDatatypes, n \in 1..MaxElems, rmin \in GenRmin, rmax \in GenRmax :
           LET g == gen_draw_set(finn_dt, rmin, rmax)
           IN  /\ call' = [fn |-> "gen_finn_dt_tensor", finn_dt |-> finn_dt,
                           size |-> n, rmin |-> rmin, rmax |-> rmax]
               /\ IF g.error # "none"
                  THEN ret' = [error |-> g.error]
                  ELSE \E tensor_values \in [1..n -> g.draws] :
                           ret' = [error |-> "none", frac |-> g.frac,
                                   value |-> gen_convert(g.kind, tensor_values)]
               /\ UNCHANGED sanVars

InterleaveMatrixOuterDim ==
    /\ call.fn = "none"
    /\ \E dtype \in ArrayDtypes, shp \in InterleaveShapes, n_partitions \in 1..MaxRows :
           \E flat \in [1..np_prod(shp) -> MatrixElements(dtype)] :
               LET matrix == np_ndarray(dtype, shp, flat)
               IN  /\ call' = [fn |-> "interleave_matrix_outer_dim_from_partitions",
                               matrix |-> matrix, n_partitions |-> n_partitions]
                   /\ ret' = interleave_matrix_outer_dim_from_partitions(matrix, n_partitions)
                   /\ UNCHANGED sanVars

PadTensorToMultipleOf ==
    /\ call.fn = "none"
    /\ \E dtype \in ArrayDtypes, shp \in PadShapes, pad_to_dims \in PadToDims,
          val \in PadValues, distr_pad \in BOOLEAN :
           LET ndarray == np_ndarray(dtype, shp, PadElements(dtype, shp))
           IN  /\ call' = [fn |-> "pad_tensor_to_multiple_of", ndarray |-> ndarray,
                           pad_to_dims |-> pad_to_dims, val |-> val,
                           distr_pad |-> distr_pad]
               /\ ret' = pad_tensor_to_multiple_of(ndarray, pad_to_dims, val, distr_pad)
               /\ UNCHANGED sanVars

Next ==
    \/ MatvecAccumulatorRange
    \/ SignedDotProdRange
    \/ GenFinnDtTensor
    \/ InterleaveMatrixOuterDim
    \/ PadTensorToMultipleOf

Spec == Init /\ [][Next]_vars

-----------------------------------------------------------------------------
(* The sanitizer as a state machine.  The initial state is any annotated   *)
(* model and any execution context over the sets below (tensor "a" is a    *)
(* vector of up to MaxTensorLen elements, tensor "b" a scalar); a call to  *)
(* sanitize_quant_values updates the context, and the caller then repeats  *)
(* the same call on the context the previous one left.                     *)

MaxTensorLen == 2

Tensors == {"a", "b"}

SanDatatypes == {INT(2), BIPOLAR, FLOAT32}

\* 1.0, 0.99, -0.995, 0.015 and 4.0.
SampleValues ==
    {UnitsPerOne, UnitsPerOne - DefaultErrorThresh, 1 - UnitsPerOne,
     DefaultErrorThresh + 1, 4 * UnitsPerOne}

\* The number of elements tensor t may have.
TensorSizes(t) == IF t = "a" THEN 1..MaxTensorLen ELSE {1}

TensorValues(t) == UNION {[1..n -> SampleValues] : n \in TensorSizes(t)}

ExecutionContexts ==
    {ctx \in [Tensors -> TensorValues("a") \cup TensorValues("b")] :
        \A t \in Tensors : ctx[t] \in TensorValues(t)}

\* The lists of tensor names a call may be given: any order, repeats included.
NodeTensorLists == UNION {[1..n -> Tensors] : n \in 0..Cardinality(Tensors)}

\* ERROR_THRESH in the environment: not set, or set to 1.0.
ErrorThreshSettings == {None, Some(UnitsPerOne)}

InitSanitize ==
    /\ PureIdle
    /\ model \in [Tensors -> SanDatatypes]
    /\ execution_context \in ExecutionContexts
    /\ ERROR_THRESH \in ErrorThreshSettings
    /\ args = [called |-> FALSE]
    /\ before = execution_context
    /\ outcome = [status |-> "none"]
    /\ warned = <<>>
    /\ ncalls = 0

\* The two calls a behaviour makes.
CallsPerRun == 1 + 1

SanitizeQuantValues ==
    \E node_tensors \in NodeTensorLists, check_values \in BOOLEAN :
        LET st == sanitize_quant_values(model, node_tensors, execution_context,
                                        check_values, ERROR_THRESH)
        IN  /\ ncalls < CallsPerRun
            /\ args.called =>
                 /\ node_tensors = args.node_tensors
                 /\ check_values = args.check_values
            /\ args' = [called |-> TRUE, node_tensors |-> node_tensors,
                        check_values |-> check_values]
            /\ before' = execution_context
            /\ execution_context' = st.ctx
            /\ outcome' = [status |-> st.status, at |-> st.at]
            /\ warned' = st.warned
            /\ ncalls' = ncalls + 1
            /\ UNCHANGED <<model, ERROR_THRESH, call, ret>>

NextSanitize == SanitizeQuantValues

SpecSanitize == InitSanitize /\ [][NextSanitize]_vars

-----------------------------------------------------------------------------
(* Properties of the range analysis.                                       *)

\* The vectors of length n whose elements lie in [dt.min(), dt.max()].
BoxVectors(dt, n) == [1..n -> DtMin(dt)..DtMax(dt)]

\* Component j of x * A.
MatvecComponent(x, A, j) == SeqSum([i \in 1..Len(A) |-> x[i] * A[i][j]])

\* The dot product of two vectors of the same length.
DotProduct(x, y) == SeqSum([i \in 1..Len(x) |-> x[i] * y[i]])

IsMatvecCall == call.fn = "calculate_matvec_accumulator_range"

\* C1: the pair (acc_min, acc_max) returned by
\* calculate_matvec_accumulator_range(A, dt) bounds every component of x * A
\* for every vector x with elements in [dt.min(), dt.max()], and both bounds
\* are attained by some such x at some output column.
C1_MatvecRangeSoundAndTight ==
    IsMatvecCall =>
        LET A == call.matrix
            X == BoxVectors(call.vec_dt, MatMW(A))
            J == 1..MatMH(A)
            acc_min == ret.value[1]
            acc_max == ret.value[2]
        IN  /\ \A x \in X, j \in J :
                /\ acc_min <= MatvecComponent(x, A, j)
                /\ MatvecComponent(x, A, j) <= acc_max
            /\ \E x \in X, j \in J : MatvecComponent(x, A, j) = acc_min
            /\ \E x \in X, j \in J : MatvecComponent(x, A, j) = acc_max

\* A matrix with weights of both signs and two columns with different
\* extremes, multiplied by a signed vector.
C1_Witness ==
    /\ IsMatvecCall
    /\ MatMW(call.matrix) = 2 /\ MatMH(call.matrix) = 2
    /\ call.matrix[1][1] > 0 /\ call.matrix[2][1] < 0
    /\ call.matrix[1][2] = 0 /\ call.matrix[2][2] > 0
    /\ call.vec_dt = INT(3)
    /\ ret.value[1] < 0 /\ ret.value[2] > 0

IsDotCall == call.fn = "calculate_signed_dot_prod_range"

\* The four corner products {a.min(), a.max()} x {b.min(), b.max()}.
Corners(dt_a, dt_b) ==
    {a * b : a \in {DtMin(dt_a), DtMax(dt_a)}, b \in {DtMin(dt_b), DtMax(dt_b)}}

\* The datatypes whose box of vectors is small enough to enumerate.
Enumerable(dt) == DtMax(dt) - DtMin(dt) < 8

\* C2: for signed datatypes a, b and length > 0,
\* calculate_signed_dot_prod_range returns (length * m, length * M), m and M
\* the least and greatest corner product; neither initial value of the loop
\* is returned in its own position; and the pair is the exact range of the
\* dot products of two vectors of that length over the two datatype ranges.
C2_DotProdRangeExact ==
    (IsDotCall /\ DtSigned(call.dt_a) /\ DtSigned(call.dt_b) /\ call.len > 0) =>
        LET a == call.dt_a
            b == call.dt_b
            n == call.len
        IN  /\ ret.error = "none"
            /\ ret.value = <<n * SetMin(Corners(a, b)), n * SetMax(Corners(a, b))>>
            /\ ret.value[1] # MinProdInit
            /\ ret.value[2] # MaxProdInit
            /\ (Enumerable(a) /\ Enumerable(b)) =>
                /\ \A x \in BoxVectors(a, n), y \in BoxVectors(b, n) :
                    /\ ret.value[1] <= DotProduct(x, y)
                    /\ DotProduct(x, y) <= ret.value[2]
                /\ \E x \in BoxVectors(a, n), y \in BoxVectors(b, n) :
                    DotProduct(x, y) = ret.value[1]
                /\ \E x \in BoxVectors(a, n), y \in BoxVectors(b, n) :
                    DotProduct(x, y) = ret.value[2]

\* Two 16-bit vectors: the greatest product is as large as the initial
\* value of min_prod.
C2_Witness ==
    /\ IsDotCall
    /\ call.dt_a = INT(16) /\ call.dt_b = INT(16) /\ call.len = 1
    /\ ret.error = "none"
    /\ ret.value[2] = MinProdInit

\* C14: calculate_signed_dot_prod_range fails with the assertion error,
\* returning no range, whenever at least one of the two datatypes is
\* unsigned.
C14_UnsignedDotProdRejected ==
    (IsDotCall /\ (~DtSigned(call.dt_a) \/ ~DtSigned(call.dt_b))) =>
        /\ ret.error = "AssertionError"
        /\ "value" \notin DOMAIN ret

\* A call whose first datatype is signed and whose second is unsigned.
C14_Witness ==
    /\ IsDotCall
    /\ DtSigned(call.dt_a) /\ ~DtSigned(call.dt_b)
    /\ call.len > 0
    /\ ret.error = "AssertionError"

\* C15: for every matrix and every signed or unsigned datatype, the pair
\* (acc_min, acc_max) returned by calculate_matvec_accumulator_range has
\* acc_min <= acc_max.
C15_MatvecMinAtMostMax ==
    IsMatvecCall => ret.value[1] <= ret.value[2]

\* An unsigned vector datatype and a matrix with a negative weight: the two
\* ends differ.
C15_Witness ==
    /\ IsMatvecCall
    /\ ~DtSigned(call.vec_dt)
    /\ \E i \in DOMAIN call.matrix, j \in DOMAIN call.matrix[1] : call.matrix[i][j] < 0
    /\ ret.value[1] < ret.value[2]

-----------------------------------------------------------------------------
(* Properties of the layout utilities.  A tensor is stored in a floating-  *)
(* point container (specification, section 2), and the properties speak of *)
(* the values such a container holds: an array that is already float32 or  *)
(* float16, and a fill value that float32 holds exactly.  Other arguments  *)
(* are first converted to float32 by the functions themselves.             *)

IsInterleaveCall == call.fn = "interleave_matrix_outer_dim_from_partitions"

\* The container holds x as it is.
HeldExactly(x) == astype_float32(x) = x

\* Row i (from 0) of a 2-D array.
MatrixRow(a, i) == [c \in 1..a.shape[2] |-> a.flat[i * a.shape[2] + c]]

\* The row at position q of partition p (both from 0) of a 3-D array.
PartitionRow(a, p, q) ==
    [c \in 1..a.shape[3] |-> a.flat[(p * a.shape[2] + q) * a.shape[3] + c]]

\* C11: for every 2-D matrix of R rows and C columns and every n_partitions
\* that divides R, the result has shape (n_partitions, R / n_partitions, C)
\* and row i of the input is at partition i mod n_partitions, position
\* i div n_partitions; every position of the result holds one input row, so
\* every input row appears exactly once.
C11_InterleaveRoundRobin ==
    (/\ IsInterleaveCall
     /\ call.matrix.dtype \in FloatContainers
     /\ Len(call.matrix.shape) = 2
     /\ call.matrix.shape[1] % call.n_partitions = 0) =>
        LET R == call.matrix.shape[1]
            C == call.matrix.shape[2]
            n == call.n_partitions
        IN  /\ ret.error = "none"
            /\ ret.value.shape = <<n, R \div n, C>>
            /\ Len(ret.value.flat) = R * C
            /\ \A i \in 0..(R - 1) :
                   PartitionRow(ret.value, i % n, i \div n) = MatrixRow(call.matrix, i)
            /\ \A p \in 0..(n - 1), q \in 0..((R \div n) - 1) :
                   /\ Cardinality({i \in 0..(R - 1) : i % n = p /\ i \div n = q}) = 1
                   /\ PartitionRow(ret.value, p, q) = MatrixRow(call.matrix, q * n + p)

\* Four rows, no two alike, interleaved over two partitions.
C11_Witness ==
    /\ IsInterleaveCall
    /\ call.matrix.dtype \in FloatContainers
    /\ call.matrix.shape = <<4, 2>>
    /\ call.n_partitions = 2
    /\ \A i, j \in 0..3 : i # j => MatrixRow(call.matrix, i) # MatrixRow(call.matrix, j)
    /\ ret.error = "none"
    /\ PartitionRow(ret.value, 0, 1) = MatrixRow(call.matrix, 2)
    /\ PartitionRow(ret.value, 1, 0) = MatrixRow(call.matrix, 1)

IsPadCall == call.fn = "pad_tensor_to_multiple_of"

\* The smallest multiple of factor that is >= x, for a positive factor.
SmallestMultiple(x, factor) == SetMin({m \in x..(x + factor) : m % factor = 0})

TargetSize(x, factor) == IF factor = -1 THEN x ELSE SmallestMultiple(x, factor)

\* The target size of dimension d of the call, and the padding in front.
Target(d) == TargetSize(call.ndarray.shape[d], call.pad_to_dims[d])

Before(d) ==
    IF call.distr_pad THEN (Target(d) - call.ndarray.shape[d]) \div 2 ELSE 0

\* The arguments C12 speaks of.
PadArgumentsValid ==
    /\ IsPadCall
    /\ call.ndarray.dtype \in FloatContainers
    /\ HeldExactly(call.val)
    /\ Len(call.pad_to_dims) = Len(call.ndarray.shape)
    /\ \A d \in DOMAIN call.ndarray.shape :
           /\ call.ndarray.shape[d] > 0
           /\ call.pad_to_dims[d] > 0 \/ call.pad_to_dims[d] = -1

\* C12: for an array of positive sizes and a factor list of the same length
\* whose factors are positive or -1, the size of the result in dimension d
\* is the smallest multiple of factors[d] that is >= the input size
\* (unchanged for -1), the input element at index i is at index
\* i + before_d, with before_d = 0 when distribute is false and
\* pad_d div 2 when it is true, and every other cell is fill_value.
C12_PaddedToMultiple ==
    PadArgumentsValid =>
        LET given == call.ndarray
            dims == DOMAIN given.shape
        IN  /\ ret.error = "none"
            /\ ret.value.shape = [d \in dims |-> Target(d)]
            /\ Len(ret.value.flat) = np_prod([d \in dims |-> Target(d)])
            /\ \A k \in DOMAIN ret.value.flat :
                   LET idx == unravel_index(k - 1, ret.value.shape)
                       src == [d \in dims |-> idx[d] - Before(d)]
                   IN  IF \A d \in dims : src[d] >= 0 /\ src[d] < given.shape[d]
                       THEN ret.value.flat[k] =
                                given.flat[ravel_multi_index(src, given.shape) + 1]
                       ELSE ret.value.flat[k] = call.val

\* A distributed padding of three cells in one dimension, one in front and
\* two behind, next to a dimension that is not padded.
C12_Witness ==
    /\ PadArgumentsValid
    /\ call.distr_pad
    /\ Len(call.ndarray.shape) = 2
    /\ call.pad_to_dims[2] = -1 /\ call.ndarray.shape[2] > 1
    /\ Target(1) - call.ndarray.shape[1] = 3
    /\ ret.error = "none"
    /\ ret.value.shape[1] = call.ndarray.shape[1] + 3
    /\ ret.value.flat[1] = call.val
    /\ ret.value.flat[call.ndarray.shape[2] + 1] = call.ndarray.flat[1]

BadFactor(d) == call.pad_to_dims[d] <= 0 /\ call.pad_to_dims[d] # -1

PadFailed == ret.error = "AssertionError" /\ "value" \notin DOMAIN ret

\* C13 as claimed: the call fails, returning no array, whenever some factor
\* is <= 0 and not -1, or the size of some dimension is <= 0, whatever the
\* factor of that dimension.
C13_PadRejectsEveryEmptyDimension ==
    (/\ IsPadCall
     /\ \/ \E d \in DOMAIN call.pad_to_dims : BadFactor(d)
        \/ \E d \in DOMAIN call.ndarray.shape : call.ndarray.shape[d] <= 0) => PadFailed

\* C13 as amended: the call fails, returning no array, whenever some factor
\* is <= 0 and not -1, or the size of some dimension is <= 0 and the factor
\* of that dimension is not -1.  A dimension of factor -1 is not examined:
\* when the factor list matches the dimensions and every dimension has
\* factor -1, or a positive factor and a positive size, the call returns.
C13_PadRejectsUnlessUnconstrained ==
    IsPadCall =>
        LET shape == call.ndarray.shape
            both == DOMAIN shape \cap DOMAIN call.pad_to_dims
        IN  /\ (\/ \E d \in DOMAIN call.pad_to_dims : BadFactor(d)
                \/ \E d \in both : shape[d] <= 0 /\ call.pad_to_dims[d] # -1) => PadFailed
            /\ (/\ Len(call.pad_to_dims) = Len(shape)
                /\ \A d \in both :
                       \/ call.pad_to_dims[d] = -1
                       \/ call.pad_to_dims[d] > 0 /\ shape[d] > 0) => ret.error = "none"

\* An array with an empty dimension whose factor is positive is rejected,
\* next to an empty dimension of factor -1.
C13_Witness ==
    /\ IsPadCall
    /\ call.ndarray.shape = <<0, 0>>
    /\ Len(call.pad_to_dims) = 2
    /\ call.pad_to_dims[1] = -1 /\ call.pad_to_dims[2] > 0
    /\ PadFailed

-----------------------------------------------------------------------------
(* Properties of the tensor generator.                                     *)

IsGenCall == call.fn = "gen_finn_dt_tensor"

GenReturned == IsGenCall /\ ret.error = "none"

\* The elements of the returned tensor.
Elements == {ret.value[k] : k \in DOMAIN ret.value}

\* C9: every element of the tensor returned by gen_finn_dt_tensor lies in
\* the set prescribed for the datatype: [lo, hi) for an integer or ternary
\* datatype called with explicit (lo, hi), {-1, 1} for BIPOLAR and {0, 1}
\* for BINARY.
C9_GeneratedInPrescribedSet ==
    GenReturned =>
        /\ (/\ call.finn_dt.kind \in {"INT", "UINT", "TERNARY"}
            /\ call.rmin # None /\ call.rmax # None) =>
                \A e \in Elements : call.rmin[1] <= e /\ e < call.rmax[1]
        /\ call.finn_dt = BIPOLAR => Elements \subseteq {-1, 1}
        /\ call.finn_dt = BINARY => Elements \subseteq {0, 1}

\* dt.allowed(e) for an element of a tensor generated for dt: the element
\* is e * 2^-frac, frac the fraction bits of dt.
AllowedElement(dt, e) ==
    IF dt.kind = "FIXED" THEN DtAllowedInt(INT(DtBitwidth(dt)), e)
    ELSE DtAllowedInt(dt, e)

\* C10: for every supported datatype and every optional range, each element
\* of the tensor returned by gen_finn_dt_tensor is a valid sample of the
\* datatype: dt.allowed(element) is true.
C10_GeneratedAllowed ==
    GenReturned => \A e \in Elements : AllowedElement(call.finn_dt, e)

-----------------------------------------------------------------------------
(* Properties of the sanitizer.  They speak of the last call: its          *)
(* arguments (args), the context it found (before), the context it left    *)
(* (execution_context) and how it ended (outcome, warned).                 *)

Called == args.called

Succeeded == Called /\ outcome.status = "ok"

Thresh == get_execution_error_thresh(ERROR_THRESH)

\* The names the call was given.
Names == {args.node_tensors[i] : i \in DOMAIN args.node_tensors}

IntegerLike(t) == DtIsInteger(model[t])

\* The values of t were all allowed when the call began.
AllowedBefore(t) == all_allowed(model[t], before[t])

\* round_to_nearest of the values t had when the call began.
RoundedBefore(t) == [i \in DOMAIN before[t] |-> np_round(before[t][i])]

\* max(|original - round(original)|) of the values t had when the call began.
RoundingError(t) == max_abs_error(before[t], RoundedBefore(t))

\* The positions of node_tensors the loop reached, each tensor at its first
\* occurrence: there the loop found the values the call began with.
Reached ==
    {i \in DOMAIN args.node_tensors :
        /\ i <= outcome.at
        /\ \A j \in 1..(i - 1) : args.node_tensors[j] # args.node_tensors[i]}

FailedAt(i, status) == outcome.status = status /\ outcome.at = i

\* C3: sanitize is idempotent: when a call succeeds, the same call repeated
\* on the resulting context succeeds too and leaves the context equal.
C3_SanitizeIdempotent ==
    [][Succeeded => (outcome'.status = "ok" /\ execution_context' = execution_context)]_vars

\* A second call that succeeded and again found values that were not allowed.
C3_Witness ==
    /\ Succeeded /\ ncalls = CallsPerRun
    /\ Names = Tensors
    /\ warned # <<>>
    /\ \E t \in Names : IntegerLike(t) /\ all_allowed(model[t], execution_context[t])

\* C4: for a tensor with an integer-like datatype whose values are not all
\* allowed, the call fails with the rounding-too-large error exactly when
\* the rounding error is strictly greater than the threshold; an error
\* equal to the threshold passes the tolerance test, and the rounded values
\* are stored unless the re-check of check_values rejects them.
C4_RoundingTooLargeIffAboveThreshold ==
    Called =>
        \A i \in Reached :
            LET t == args.node_tensors[i]
            IN  (IntegerLike(t) /\ ~AllowedBefore(t)) =>
                    /\ FailedAt(i, "RoundingTooLarge") <=> RoundingError(t) > Thresh
                    /\ RoundingError(t) = Thresh =>
                        \/ execution_context[t] = RoundedBefore(t)
                        \/ /\ args.check_values
                           /\ ~all_allowed(model[t], RoundedBefore(t))
                           /\ FailedAt(i, "StillNotRepresentable")

\* Under the default threshold, a tensor whose error equals it was rounded
\* and stored.
C4_Witness ==
    /\ Succeeded /\ ERROR_THRESH = None
    /\ \E t \in Names :
        /\ IntegerLike(t) /\ ~AllowedBefore(t)
        /\ RoundingError(t) = DefaultErrorThresh
        /\ execution_context[t] = RoundedBefore(t)
        /\ execution_context[t] # before[t]

\* C5: with check_values, a tensor whose rounding error is within the
\* tolerance but whose rounded values are still not all allowed makes the
\* call fail with the still-not-representable error, its rounded values not
\* stored; the tolerance is tested first, so an error above the threshold
\* fails as rounding-too-large whatever the rounded values are.
C5_StrictRecheckAfterTolerance ==
    (Called /\ args.check_values) =>
        \A i \in Reached :
            LET t == args.node_tensors[i]
            IN  (IntegerLike(t) /\ ~AllowedBefore(t)
                    /\ ~all_allowed(model[t], RoundedBefore(t))) =>
                    IF RoundingError(t) <= Thresh
                    THEN /\ FailedAt(i, "StillNotRepresentable")
                         /\ execution_context[t] = before[t]
                    ELSE FailedAt(i, "RoundingTooLarge")

\* A strict call that failed on values whose rounding changes them, within
\* the tolerance, to values the datatype still does not allow.
C5_Witness ==
    /\ Called /\ args.check_values
    /\ outcome.status = "StillNotRepresentable"
    /\ LET t == args.node_tensors[outcome.at]
       IN  /\ RoundedBefore(t) # before[t]
           /\ RoundingError(t) <= Thresh
           /\ execution_context[t] = before[t]

\* The orders in which the names of the call can be processed.
Orders ==
    {p \in [DOMAIN args.node_tensors -> Names] :
        \A t \in Names :
            Cardinality({i \in DOMAIN p : p[i] = t})
                = Cardinality({i \in DOMAIN p : args.node_tensors[i] = t})}

\* The call made on the same context with the names in order p.
InOrder(p) ==
    sanitize_quant_values(model, p, before, args.check_values, ERROR_THRESH)

\* C6 as claimed: the final context and success or failure do not depend
\* on the order of the names, also when some tensor fails.
C6_OrderIndependentAlways ==
    Called =>
        \A p \in Orders :
            /\ (InOrder(p).status = "ok") = (outcome.status = "ok")
            /\ InOrder(p).ctx = execution_context

\* C6 as amended: whether the call succeeds does not depend on the order of
\* the names, and when it succeeds the final context does not either.
C6_OrderIndependentOnSuccess ==
    Called =>
        \A p \in Orders :
            /\ (InOrder(p).status = "ok") = (outcome.status = "ok")
            /\ outcome.status = "ok" => InOrder(p).ctx = execution_context

\* A successful call on two tensors, given in an order that has another,
\* that rounded one of them.
C6_Witness ==
    /\ Succeeded
    /\ Cardinality(Orders) > 1
    /\ execution_context # before

\* C7: the call changes the stored value only of tensors that are among
\* the names, have an integer-like datatype and whose values were not all
\* allowed; every other entry is as it was.
C7_OnlyCorrectedTensorsChange ==
    Called =>
        \A t \in Tensors :
            execution_context[t] # before[t] =>
                /\ t \in Names
                /\ IntegerLike(t)
                /\ ~AllowedBefore(t)

\* A call that rounded one tensor and passed over a float tensor, among
\* the names, whose values are not whole.
C7_Witness ==
    /\ Called
    /\ \E t \in Names : execution_context[t] # before[t]
    /\ \E t \in Names :
        /\ ~IntegerLike(t)
        /\ RoundedBefore(t) # before[t]
        /\ execution_context[t] = before[t]

\* The same call repeated on the context the last call left.
SecondPass ==
    sanitize_quant_values(model, args.node_tensors, execution_context,
                          args.check_values, ERROR_THRESH)

\* After the call, every named tensor with an integer-like datatype holds
\* only allowed values, and a second pass rounds nothing and warns of nothing.
AllNamedAllowed ==
    /\ \A t \in Names :
        IntegerLike(t) => all_allowed(model[t], execution_context[t])
    /\ SecondPass.status = "ok"
    /\ SecondPass.warned = <<>>
    /\ SecondPass.ctx = execution_context

\* C8 as claimed: after a call that succeeds, with check_values on or off,
\* every named integer-like tensor holds only allowed values, and a second
\* pass performs no rounding and emits no warning.
C8_AllowedAfterSuccess == Succeeded => AllNamedAllowed

\* C8 as amended: the same, after a call with check_values that succeeds.
C8_AllowedAfterStrictSuccess ==
    (Succeeded /\ args.check_values) => AllNamedAllowed

\* A strict call that succeeded and rounded a tensor.
C8_Witness ==
    /\ Succeeded /\ args.check_values
    /\ \E t \in Names : IntegerLike(t) /\ execution_context[t] # before[t]

\* The tensors the call warned about.
WarnedNames == {warned[i] : i \in DOMAIN warned}

Failed == Called /\ outcome.status \in {"RoundingTooLarge", "StillNotRepresentable"}

\* The call rounded the values of t and wrote the rounded values to the store.
RoundedAndWritten(t) ==
    /\ \E i \in Reached :
        /\ args.node_tensors[i] = t
        /\ IntegerLike(t) /\ ~AllowedBefore(t)
        /\ ~(Failed /\ outcome.at = i)
    /\ execution_context[t] = RoundedBefore(t)

\* The loop came to t and found values that are not all allowed.
FoundNotAllowed(t) ==
    \E i \in Reached :
        args.node_tensors[i] = t /\ IntegerLike(t) /\ ~AllowedBefore(t)

\* C16 as claimed: a warning naming t is emitted if and only if the values
\* of t were rounded and the rounded values written to the store, and none
\* is emitted for the tensor on which the call fails.
C16_WarnedIffCommitted ==
    Called =>
        /\ \A t \in Tensors : t \in WarnedNames <=> RoundedAndWritten(t)
        /\ Failed => args.node_tensors[outcome.at] \notin WarnedNames

\* C16 as amended: a warning naming t is emitted if and only if the loop
\* comes to t and finds its values not all allowed, before the tolerance
\* test and the re-check.  After a call that succeeds the warned tensors are
\* those whose rounded values were written; a call that fails has warned
\* about the tensor it fails on, whose rounded values are not written.
C16_WarnedWhenRounded ==
    Called =>
        /\ \A t \in Tensors : t \in WarnedNames <=> FoundNotAllowed(t)
        /\ Succeeded => \A t \in Tensors : t \in WarnedNames <=> RoundedAndWritten(t)
        /\ Failed =>
            /\ args.node_tensors[outcome.at] \in WarnedNames
            /\ ~RoundedAndWritten(args.node_tensors[outcome.at])

\* A call that rounded and stored one tensor, warning about it, and then
\* failed on another, having warned about that one too.
C16_Witness ==
    /\ Failed
    /\ Cardinality(WarnedNames) = 2
    /\ \E t \in WarnedNames : RoundedAndWritten(t) /\ execution_context[t] # before[t]

=============================================================================
